---- MODULE Spec2Model ----
(***************************************************************************)
(* Model of the job-alert bot's change detector and store (src/main.py):   *)
(* load_known_jobs, the diff loop of main(), send_email's return value and *)
(* save_known_jobs, over a sequence of sequential runs sharing one state   *)
(* file (data/known_jobs.json).                                            *)
(*                                                                         *)
(* Values.  A Python/JSON value is a record [t, v]: t is its type and v    *)
(* what distinguishes values of that type.  "str" values are identifiers,  *)
(* "none" is None / JSON null, "num" are JSON numbers, "list" stands for   *)
(* the unhashable JSON containers (arrays and objects; v = "" is the empty *)
(* container).  A posting is a record [id |-> value]: job.get("id") is     *)
(* None when the key is absent.  The title, location and link of a posting *)
(* are only printed and formatted, never tested, and are left out.         *)
(***************************************************************************)
EXTENDS Integers, Sequences, FiniteSets, TLC

\* ------------------------------------------------------------------ bounds
MaxJobs == 3
MaxFileLen == 1
MaxRuns == 2

\* ------------------------------------------------------------------ values
Str(s) == [t |-> "str", v |-> s]
None == [t |-> "none", v |-> ""]
Num(d) == [t |-> "num", v |-> d]
List(c) == [t |-> "list", v |-> c]

\* The literal of main.py line 27.
SENTINEL == Str("unknown_id")

\* The identifiers of the model, in the order Python's str comparison gives
\* them (code points: "" < "A" < "B" < "unknown_id").
StrOrder == <<"", "A", "B", "unknown_id">>

StrIds == {Str(StrOrder[k]) : k \in 1..Len(StrOrder)}

\* What the fetcher can put in a posting's id: a string, or nothing.
JobIds == StrIds \cup {None}

Postings == {[id |-> e] : e \in JobIds}

\* What a JSON array in the state file can hold: strings, null, numbers,
\* and a non-empty array or object.
JsonElems ==
    {Str(""), Str("A"), SENTINEL, None, Num("0"), Num("1"), List("x")}

\* Python truthiness (`if job_id`): None, "", 0 and empty containers are falsy.
Truthy(e) ==
    CASE e.t = "none" -> FALSE
      [] e.t = "str" -> e.v # ""
      [] e.t = "num" -> e.v # "0"
      [] e.t = "list" -> e.v # ""

\* hash(e) succeeds: lists and dicts are unhashable.
Hashable(e) == e.t # "list"

Range(s) == {s[k] : k \in 1..Len(s)}

SeqsUpTo(S, n) == UNION {[1..k -> S] : k \in 0..n}

\* ------------------------------------------------------------- state file
\* kind: "absent" (no file), "empty" (zero bytes), "garbage" (not JSON),
\* "object" (JSON whose root is not an array), "array" (body = its elements).
NoBody(k) == [kind |-> k, body |-> <<>>]

FileContents(Elems, n) ==
    {NoBody(k) : k \in {"absent", "empty", "garbage", "object"}}
        \cup {[kind |-> "array", body |-> b] : b \in SeqsUpTo(Elems, n)}


\* ------------------------------------------------------- load_known_jobs
\* Line 27 with the sentinel test left out.
valid_ids_keep_sentinel(data) == SelectSeq(data, LAMBDA job_id : Truthy(job_id))

\* main.py line 27: [job_id for job_id in data if job_id and job_id != "unknown_id"]
valid_ids(data) ==
    SelectSeq(data, LAMBDA job_id : Truthy(job_id) /\ job_id # SENTINEL)

\* main.py lines 17-33.  exc is the exception that leaves the function
\* ("none": it returns ret).  json.load raises JSONDecodeError on an empty
\* or garbled file, which line 30 catches; set(valid_ids) raises TypeError
\* on an unhashable element, which nothing catches.
load_known_jobs(f) ==
    IF f.kind = "array"
    THEN LET ids == valid_ids(f.body)
         IN  IF \A k \in 1..Len(ids) : Hashable(ids[k])
             THEN [exc |-> "none", ret |-> Range(ids)]
             ELSE [exc |-> "TypeError", ret |-> {}]
    ELSE [exc |-> "none", ret |-> {}]

\* ------------------------------------------------------- save_known_jobs
\* Python's `<` between two values: defined within str and within numbers.
Comparable(a, b) == a.t = b.t /\ a.t \in {"str", "num"}

Rank(e) ==
    IF e.t = "str"
    THEN CHOOSE k \in 1..Len(StrOrder) : StrOrder[k] = e.v
    ELSE IF e.v = "0" THEN 0 ELSE 1

RECURSIVE sorted(_)
\* sorted(list(S)) for a set S of pairwise comparable values (line 40).
sorted(S) ==
    IF S = {}
    THEN <<>>
    ELSE LET m == CHOOSE x \in S : \A y \in S : Rank(x) <= Rank(y)
         IN  <<m>> \o sorted(S \ {m})

\* main.py lines 35-41.  open(DATA_FILE, "w") truncates the file before
\* sorted() runs: when sorted() raises TypeError (values of different types
\* in the set) the file is left empty.
save_known_jobs(known) ==
    IF \A a \in known : \A b \in known : a = b \/ Comparable(a, b)
    THEN [exc |-> "none", file |-> [kind |-> "array", body |-> sorted(known)]]
    ELSE [exc |-> "TypeError", file |-> NoBody("empty")]

\* ---------------------------------------------------------- the diff loop
\* Line 71 without the `job_id not in known_jobs` test.
DiffStep_no_membership_test(job, st) ==
    IF Truthy(job.id)
    THEN [new_jobs |-> Append(st.new_jobs, job),
          known_jobs |-> st.known_jobs \cup {job.id}]
    ELSE st

\* Line 73 left out: a new posting's identifier is not recorded.
DiffStep_new_not_recorded(job, st) ==
    IF Truthy(job.id) /\ job.id \notin st.known_jobs
    THEN [new_jobs |-> Append(st.new_jobs, job), known_jobs |-> st.known_jobs]
    ELSE st

\* Line 77 left out: the else branch records the identifier even when falsy.
DiffStep_records_falsy(job, st) ==
    IF Truthy(job.id) /\ job.id \notin st.known_jobs
    THEN [new_jobs |-> Append(st.new_jobs, job),
          known_jobs |-> st.known_jobs \cup {job.id}]
    ELSE [new_jobs |-> st.new_jobs, known_jobs |-> st.known_jobs \cup {job.id}]

\* One iteration of the loop of main.py lines 69-78 on the pair
\* st = [new_jobs, known_jobs].
DiffStep(job, st) ==
    LET job_id == job.id
    IN  IF Truthy(job_id) /\ job_id \notin st.known_jobs
        THEN [new_jobs |-> Append(st.new_jobs, job),
              known_jobs |-> st.known_jobs \cup {job_id}]
        ELSE IF Truthy(job_id)
             THEN [new_jobs |-> st.new_jobs,
                   known_jobs |-> st.known_jobs \cup {job_id}]
             ELSE st

RECURSIVE DiffFrom(_, _, _)
\* The loop run from position k+1 of P to its end.
DiffFrom(P, k, st) ==
    IF k >= Len(P) THEN st ELSE DiffFrom(P, k + 1, DiffStep(P[k + 1], st))

\* The whole loop (lines 67-78) on postings P and known set K.
Diff(P, K) == DiffFrom(P, 0, [new_jobs |-> <<>>, known_jobs |-> K])

\* ------------------------------------------------------------------ state
VARIABLES
    dir_exists,    \* the data directory exists (ensure_data_dir)
    file,          \* content of data/known_jobs.json
    pc,            \* position of the current run of main()
    known_jobs,    \* main(): known_jobs
    current_jobs,  \* main(): current_jobs
    idx,           \* main(): postings of current_jobs the loop has handled
    new_jobs,      \* main(): new_jobs
    email_sent,    \* main(): email_sent ("unset" until line 92 assigns it)
    raised,        \* where an uncaught exception ended the run ("none")
    run,           \* number of the current run
    file_at_start, \* history: the file when the current run started
    loaded,        \* history: what load_known_jobs returned in this run
    save_calls,    \* history: calls of save_known_jobs in this run
    saved,         \* history: argument of the last save_known_jobs call
    email_calls,   \* history: calls of send_email in this run
    notified       \* history: per identifier, its occurrences in the lists
                   \* passed to send_email, over all runs

vars ==
    <<dir_exists, file, pc, known_jobs, current_jobs, idx, new_jobs,
      email_sent, raised, run, file_at_start, loaded, save_calls, saved,
      email_calls, notified>>

locals == <<known_jobs, current_jobs, idx, new_jobs, email_sent>>

history == <<file_at_start, loaded, save_calls, saved, email_calls, notified>>

\* Identifiers a posting can be reported under.
Reportable == {e \in StrIds : Truthy(e)}

\* Occurrences of identifier e in a list of postings.
Count(jobs, e) == Cardinality({k \in 1..Len(jobs) : jobs[k].id = e})

\* A fresh process about to call main(), on state file f.
Fresh(f) ==
    /\ file = f
    /\ pc = "load"
    /\ known_jobs = {}
    /\ current_jobs = <<>>
    /\ idx = 0
    /\ new_jobs = <<>>
    /\ email_sent = "unset"
    /\ raised = "none"
    /\ run = 1
    /\ file_at_start = f
    /\ loaded = {}
    /\ save_calls = 0
    /\ saved = {}
    /\ email_calls = 0
    /\ notified = [e \in Reportable |-> 0]

\* The first run finds any state file: none, an empty or garbled one, JSON
\* that is not an array, or an array of any JSON values.
Init ==
    /\ dir_exists \in BOOLEAN
    /\ \E f \in FileContents(JsonElems, MaxFileLen) :
          /\ (~dir_exists => f.kind = "absent")
          /\ Fresh(f)

\* main.py lines 48-50 (load_known_jobs: lines 17-33; ensure_data_dir: 11-15).
Load ==
    /\ pc = "load"
    /\ dir_exists' = TRUE
    /\ LET r == load_known_jobs(file)
       IN  IF r.exc = "none"
           THEN /\ known_jobs' = r.ret
                /\ loaded' = r.ret
                /\ pc' = "fetch"
                /\ raised' = raised
           ELSE /\ pc' = "crashed"
                /\ raised' = "load"
                /\ UNCHANGED <<known_jobs, loaded>>
    /\ UNCHANGED <<file, current_jobs, idx, new_jobs, email_sent, run,
                   file_at_start, save_calls, saved, email_calls, notified>>

\* Lines 54-62 with the early return of line 62 left out.
Fetch_no_early_return ==
    /\ pc = "fetch"
    /\ \E P \in SeqsUpTo(Postings, MaxJobs) :
          /\ current_jobs' = P
          /\ pc' = IF P = <<>> THEN "process" ELSE "diff"
    /\ UNCHANGED <<dir_exists, file, known_jobs, idx, new_jobs, email_sent,
                   raised, run, history>>

\* main.py lines 54-67: the fetcher returns any list of postings; an empty
\* one ends the run (line 62).
Fetch ==
    /\ pc = "fetch"
    /\ \E P \in SeqsUpTo(Postings, MaxJobs) :
          /\ current_jobs' = P
          /\ pc' = IF P = <<>> THEN "done" ELSE "diff"
    /\ UNCHANGED <<dir_exists, file, known_jobs, idx, new_jobs, email_sent,
                   raised, run, history>>

\* main.py lines 69-78: one iteration of the loop; after the last one the
\* run goes on to line 81.
DiffLoop ==
    /\ pc = "diff"
    /\ idx < Len(current_jobs)
    /\ LET st == DiffStep(current_jobs[idx + 1],
                          [new_jobs |-> new_jobs, known_jobs |-> known_jobs])
       IN  /\ new_jobs' = st.new_jobs
           /\ known_jobs' = st.known_jobs
    /\ idx' = idx + 1
    /\ pc' = IF idx + 1 = Len(current_jobs) THEN "process" ELSE "diff"
    /\ UNCHANGED <<dir_exists, file, current_jobs, email_sent, raised, run,
                   history>>

\* Lines 81-97 with the save skipped when send_email returned False.
Notify_save_only_on_success ==
    /\ pc = "process"
    /\ new_jobs # <<>>
    /\ \E ok \in BOOLEAN :
          /\ email_sent' = IF ok THEN "True" ELSE "False"
          /\ pc' = IF ok THEN "save" ELSE "done"
    /\ email_calls' = email_calls + 1
    /\ notified' = [e \in Reportable |-> notified[e] + Count(new_jobs, e)]
    /\ UNCHANGED <<dir_exists, file, known_jobs, current_jobs, idx, new_jobs,
                   raised, run, file_at_start, loaded, save_calls, saved>>

\* main.py lines 81-97: new postings were found; send_email (emailer.py
\* lines 9-176) returns True, or False on a missing setting or any error of
\* the transport (it catches every Exception).
Notify ==
    /\ pc = "process"
    /\ new_jobs # <<>>
    /\ \E ok \in BOOLEAN : email_sent' = IF ok THEN "True" ELSE "False"
    /\ email_calls' = email_calls + 1
    /\ notified' = [e \in Reportable |-> notified[e] + Count(new_jobs, e)]
    /\ pc' = "save"
    /\ UNCHANGED <<dir_exists, file, known_jobs, current_jobs, idx, new_jobs,
                   raised, run, file_at_start, loaded, save_calls, saved>>

\* main.py lines 103-105: no new posting.
NoNewJobs ==
    /\ pc = "process"
    /\ new_jobs = <<>>
    /\ pc' = "save"
    /\ UNCHANGED <<dir_exists, file, locals, raised, run, history>>

\* main.py lines 100 and 106 (save_known_jobs: lines 35-41), then 108-110.
Save ==
    /\ pc = "save"
    /\ dir_exists' = TRUE
    /\ LET r == save_known_jobs(known_jobs)
       IN  /\ file' = r.file
           /\ pc' = IF r.exc = "none" THEN "done" ELSE "crashed"
           /\ raised' = IF r.exc = "none" THEN raised ELSE "save"
    /\ save_calls' = save_calls + 1
    /\ saved' = known_jobs
    /\ UNCHANGED <<locals, run, file_at_start, loaded, email_calls, notified>>

\* Line 113: the next invocation of the script starts a fresh main().
StartRun ==
    /\ pc \in {"done", "crashed"}
    /\ run < MaxRuns
    /\ pc' = "load"
    /\ known_jobs' = {}
    /\ current_jobs' = <<>>
    /\ idx' = 0
    /\ new_jobs' = <<>>
    /\ email_sent' = "unset"
    /\ raised' = "none"
    /\ run' = run + 1
    /\ file_at_start' = file
    /\ loaded' = {}
    /\ save_calls' = 0
    /\ email_calls' = 0
    /\ UNCHANGED <<dir_exists, file, saved, notified>>

Next == Load \/ Fetch \/ DiffLoop \/ Notify \/ NoNewJobs \/ Save \/ StartRun

Spec == Init /\ [][Next]_vars

\* ------------------------------------------- further specifications
\* The state file holds only what section 6 of the specification lets it
\* hold (an array of strings) or is absent, empty, garbled or not an array:
\* the runs of a bot whose file nobody filled with other JSON values.
InitStrings ==
    /\ dir_exists \in BOOLEAN
    /\ \E f \in FileContents(StrIds, MaxFileLen) :
          /\ (~dir_exists => f.kind = "absent")
          /\ Fresh(f)

SpecStrings == InitStrings /\ [][Next]_vars

\* save_known_jobs(S) for any set S of identifiers, over any previous file,
\* followed by a load_known_jobs() in the next process.
InitRoundTrip ==
    /\ dir_exists \in BOOLEAN
    /\ \E f \in FileContents(JsonElems, MaxFileLen) :
       \E S \in SUBSET StrIds :
          /\ (~dir_exists => f.kind = "absent")
          /\ file = f
          /\ pc = "save"
          /\ known_jobs = S
          /\ current_jobs = <<>>
          /\ idx = 0
          /\ new_jobs = <<>>
          /\ email_sent = "unset"
          /\ raised = "none"
          /\ run = 1
          /\ file_at_start = f
          /\ loaded = {}
          /\ save_calls = 0
          /\ saved = {}
          /\ email_calls = 0
          /\ notified = [e \in Reportable |-> 0]

NextRoundTrip == Save \/ StartRun \/ Load

SpecRoundTrip == InitRoundTrip /\ [][NextRoundTrip]_vars

\* ----------------------------------------------------------------- claims
\* The loop of lines 69-78 has handled every posting of a non-empty scrape.
DiffDone == current_jobs # <<>> /\ idx = Len(current_jobs)

\* Identifiers of the postings of P that have a non-falsy one.
TruthyIds(P) == {P[k].id : k \in {n \in 1..Len(P) : Truthy(P[n].id)}}

\* C1: every posting the diff loop puts in new_jobs has a non-empty
\* identifier that was not in the known set when the diff started.
C1_NewJobsWereUnknown ==
    \A k \in 1..Len(new_jobs) :
        /\ Truthy(new_jobs[k].id)
        /\ new_jobs[k].id \notin loaded

\* A finished diff that found new postings among postings already known.
C1_Witness ==
    /\ DiffDone
    /\ new_jobs # <<>>
    /\ \E k \in 1..Len(current_jobs) : current_jobs[k].id \in loaded

\* C2: the known set, in memory and as handed to save_known_jobs, never
\* holds the empty identifier or the sentinel "unknown_id".
C2_NoEmptyNoSentinel ==
    \A e \in known_jobs \cup saved : e # Str("") /\ e # SENTINEL

\* C3: after the diff the known set is exactly what was loaded united with
\* the non-falsy identifiers of the scrape.
C3_UpdatedSetIsUnion ==
    DiffDone => known_jobs = loaded \cup TruthyIds(current_jobs)

\* A finished diff over a non-empty loaded set, with a new posting and
\* one that was known.
C3_Witness ==
    /\ DiffDone
    /\ loaded # {}
    /\ new_jobs # <<>>
    /\ Len(new_jobs) < Cardinality(TruthyIds(current_jobs))

\* C4: a run whose fetch returned nothing ends without a send_email call,
\* without a save_known_jobs call and with the state file as it found it.
C4_EmptyFetchTouchesNothing ==
    (pc = "done" /\ current_jobs = <<>>) =>
        /\ email_calls = 0
        /\ save_calls = 0
        /\ file = file_at_start

\* A run over a garbled state file ended by an empty fetch.
C4_Witness ==
    /\ pc = "done"
    /\ current_jobs = <<>>
    /\ file.kind = "garbage"

\* C5: save_known_jobs is called at most once per run, never before the
\* diff loop has finished, with the fully updated set (a function of the
\* loaded set and the scrape alone, so the same whatever send_email
\* returned); a run that fetched postings and ended has called it.
C5_SaveOnceAfterDiff ==
    /\ save_calls <= 1
    /\ (pc \in {"load", "fetch", "diff", "process", "save"} => save_calls = 0)
    /\ (save_calls > 0 =>
            /\ DiffDone
            /\ saved = Diff(current_jobs, loaded).known_jobs)
    /\ ((pc \in {"done", "crashed"} /\ current_jobs # <<>>) => save_calls = 1)

\* A run that found new postings, failed to notify and saved them.
C5_Witness ==
    /\ pc = "done"
    /\ email_sent = "False"
    /\ save_calls = 1
    /\ saved # loaded

\* C6: load_known_jobs never raises; on an array it returns the elements
\* that are neither falsy nor the sentinel, on anything else the empty set.
C6_LoadNeverRaises ==
    /\ raised # "load"
    /\ (pc = "fetch" =>
            known_jobs =
                IF file.kind = "array"
                THEN {e \in Range(file.body) : Truthy(e) /\ e # SENTINEL}
                ELSE {})

\* C7: what load_known_jobs returns after save_known_jobs(S) is S without
\* the empty identifier and the sentinel, whatever the file held before.
C7_RoundTrip ==
    (pc = "fetch" /\ run > 1) => known_jobs = saved \ {Str(""), SENTINEL}

\* A load after the save of a set that held the empty identifier, the
\* sentinel and another identifier.
C7_Witness ==
    /\ pc = "fetch"
    /\ run > 1
    /\ {Str(""), SENTINEL, Str("B")} \subseteq saved
    /\ known_jobs # {}

\* C8: the diff run again on the same scrape with the known set the first
\* one produced finds nothing new and leaves the known set as it is.
C8_DiffIdempotent ==
    DiffDone =>
        Diff(current_jobs, known_jobs) =
            [new_jobs |-> <<>>, known_jobs |-> known_jobs]

\* A finished diff that reported two postings.
C8_Witness == DiffDone /\ Len(new_jobs) >= 2

\* C9: postings with a missing or empty identifier are never reported, put
\* nothing in the known set or the saved one, and the diff of the scrape is
\* the diff of the scrape without them.
C9_NoIdPostingsIgnored ==
    /\ \A k \in 1..Len(new_jobs) : new_jobs[k].id \notin {None, Str("")}
    /\ None \notin known_jobs /\ Str("") \notin known_jobs
    /\ (save_calls > 0 => None \notin saved /\ Str("") \notin saved)
    /\ (DiffDone =>
            Diff(SelectSeq(current_jobs, LAMBDA job : Truthy(job.id)), loaded)
                = [new_jobs |-> new_jobs, known_jobs |-> known_jobs])

\* A saved run whose scrape had a posting without identifier, one with an
\* empty identifier and a new one.
C9_Witness ==
    /\ pc = "done"
    /\ save_calls = 1
    /\ \E k \in 1..Len(current_jobs) : current_jobs[k].id = None
    /\ \E k \in 1..Len(current_jobs) : current_jobs[k].id = Str("")
    /\ new_jobs # <<>>

\* C10: over all runs, an identifier other than the sentinel occurs at most
\* once in the lists passed to send_email.
C10_NotifiedAtMostOnce ==
    \A e \in Reportable \ {SENTINEL} : notified[e] <= 1

\* A later run sees again, twice, a posting an earlier run reported (while
\* send_email failed now) and reports nothing under its identifier.
C10_Witness ==
    /\ run > 1
    /\ pc = "done"
    /\ email_sent = "False"
    /\ Count(current_jobs, Str("A")) = 2
    /\ Count(new_jobs, Str("A")) = 0
    /\ notified[Str("A")] = 1

====
